---- MODULE Spec2Model ----
(***************************************************************************)
(* bunqyy: the credential bundle (ApiContext), its bootstrap handshake and *)
(* credential store (src/src/api_context.rs) and the request middleware    *)
(* pipeline that refreshes the session and signs requests                  *)
(* (src/src/http.rs), with several requests sharing one                    *)
(* Arc<Mutex<ApiContext>>.                                                 *)
(*                                                                         *)
(* Strings that the program only passes around (tokens, keys, signatures)  *)
(* are tuples tagged with their kind; time is whole seconds, as read by    *)
(* DateTime::timestamp().                                                  *)
(***************************************************************************)
EXTENDS Integers, Sequences, FiniteSets, TLC

\* ------------------------------------------------------------------ bounds
NumRequests == 2
MaxTime == 1
\* the longest list of entries in an envelope, and of bytes signed, drawn when
\* a function is applied on its own
MaxLen == 3

Requests == 1..NumRequests

\* --------------------------------------------------------- program constants
\* needs_to_be_refreshed: "+ 10"
RefreshBuffer == 10
\* tokio::sync::Mutex with no holder
Free == 0
\* generate_keypair: Rsa::generate(2048)
KeyBits == 2048

\* ------------------------------------------------------------- environment
\* What the outside world can hand to the program.
Environments == {"SANDBOX"}
AccessTokens == {"ak1"}
SessionTimeouts == {9, 11}
Bodies == {"payload"}

NoToken == <<"none", 0>>
InstallationTokenOf(n) == <<"installation", n>>
SessionTokenOf(n) == <<"session", n>>
PrivateKeyOf(k) == <<"private", k>>
PublicKeyOf(k) == <<"public", k>>
ServerKey == <<"server", 1>>

\* ---------------------------------------------------------------- helpers
Min(S) == CHOOSE x \in S : \A y \in S : x <= y

None == << >>
Some(x) == << x >>
IsSome(o) == Len(o) = 1
Unwrap(o) == o[1]

\* ------------------------------------------------------------ data model
UserInformation(id, display_name, public_nick_name, session_timeout) ==
    [id |-> id, display_name |-> display_name,
     public_nick_name |-> public_nick_name, session_timeout |-> session_timeout]

SessionUserApiKey(id, requested_by_user, granted_by_user) ==
    [id |-> id, requested_by_user |-> requested_by_user,
     granted_by_user |-> granted_by_user]

SessionContext(token, valid_until, user_id, user_api_key) ==
    [token |-> token, valid_until |-> valid_until, user_id |-> user_id,
     user_api_key |-> user_api_key]

InstallationContext(token, private_key_client, public_key_client, public_key_server) ==
    [token |-> token, private_key_client |-> private_key_client,
     public_key_client |-> public_key_client, public_key_server |-> public_key_server]

ApiContext(api_key, environment, installation_context, session_context) ==
    [api_key |-> api_key, environment |-> environment,
     installation_context |-> installation_context,
     session_context |-> session_context]

NullUser == UserInformation(0, "", "", 0)
NullSession == SessionContext(NoToken, 0, 0, SessionUserApiKey(0, NullUser, NullUser))
NullInstallation == InstallationContext(NoToken, NoToken, NoToken, NoToken)
\* the value of the handle before get_api_context has produced a bundle
NullContext == ApiContext("", "", NullInstallation, NullSession)

WithSessionContextDroppingInstallation(self, session_context) ==
    ApiContext(self.api_key, self.environment, NullInstallation, session_context)

\* ApiContext::with_session_context
WithSessionContext(self, session_context) ==
    ApiContext(self.api_key, self.environment, self.installation_context,
               session_context)

NeedsToBeRefreshedInclusive(session, t) ==
    session.valid_until <= t + RefreshBuffer

\* SessionContext::needs_to_be_refreshed, at clock reading t
NeedsToBeRefreshed(session, t) ==
    session.valid_until < t + RefreshBuffer

\* ---------------------------------------------------------------- signing
\* sign_bytes_data_to_string / create_signer: the signature is a function of
\* the key and of the bytes signed, and of nothing else.
SignBytesDataToString(data, private_key_pem) == <<"signature", private_key_pem, data>>

SignToVecLenOfData(data, key_bits) == Len(data)

\* signer.update(data); signer.sign_to_vec(): an RSA signature of the SHA-256
\* digest of the data is as long as the key's modulus, whatever the data
SignToVecLen(data, key_bits) == key_bits \div 8

\* base64::encode_block: four characters for every three bytes, padded
EncodeBlockLen(n) == 4 * ((n + 2) \div 3)

\* signed_data.len() for sign_bytes_data_to_string(data, key)
SignedDataLen(data, key_bits) == EncodeBlockLen(SignToVecLen(data, key_bits))

\* -------------------------------------------------------- response envelope
TokenEntry(t) == [variant |-> "Token", token |-> t]
ServerPublicKeyEntry(k) == [variant |-> "ServerPublicKey", server_public_key |-> k]
IdEntry(n) == [variant |-> "Id", id |-> n]
UserApiKeyEntry(timeout) ==
    [variant |-> "UserApiKey", id |-> 42,
     requested_by_user |-> UserInformation(7, "A", "a", timeout),
     granted_by_user |-> UserInformation(8, "B", "b", 3600)]
OtherEntry == [variant |-> "Other"]

BunqError(d, t) == [error_description |-> d, error_description_translated |-> t]

ResponseBody(entries) == [shape |-> "Response", entries |-> entries, errors |-> << >>]
ErrorBody(errors) == [shape |-> "Error", entries |-> << >>, errors |-> errors]
\* the call itself failed (send().await? / text().await?)
TransportFailure == [shape |-> "Transport", entries |-> << >>, errors |-> << >>]

ErrorBodies ==
    {ErrorBody(<<BunqError("e", "t")>>),
     ErrorBody(<<BunqError("e", "t"), BunqError("f", "u")>>)}

Variants == {"Token", "ServerPublicKey", "Id", "UserApiKey", "Other"}

ProcessResponseContentFirstEntry(body, content) ==
    IF body.shape = "Response"
       /\ \A i \in DOMAIN body.entries : body.entries[i].variant \in content
    THEN [kind |-> "Success",
          response |-> SubSeq(body.entries, 1, Min({1, Len(body.entries)})),
          error |-> << >>]
    ELSE IF body.shape = "Error"
    THEN [kind |-> "Error", response |-> << >>, error |-> body.errors]
    ELSE [kind |-> "Undecodable", response |-> << >>, error |-> << >>]

ProcessResponseContentFirstError(body, content) ==
    IF body.shape = "Response"
       /\ \A i \in DOMAIN body.entries : body.entries[i].variant \in content
    THEN [kind |-> "Success", response |-> body.entries, error |-> << >>]
    ELSE IF body.shape = "Error"
    THEN [kind |-> "Error", response |-> << >>,
          error |-> SubSeq(body.errors, 1, Min({1, Len(body.errors)}))]
    ELSE [kind |-> "Undecodable", response |-> << >>, error |-> << >>]

\* process_response_content::<T>: BunqResponse<T> is untagged, Success is
\* tried first and needs every entry to decode as T, then Error; content is
\* the set of variants that decode as T.
ProcessResponseContent(body, content) ==
    IF body.shape = "Response"
       /\ \A i \in DOMAIN body.entries : body.entries[i].variant \in content
    THEN [kind |-> "Success", response |-> body.entries, error |-> << >>]
    ELSE IF body.shape = "Error"
    THEN [kind |-> "Error", response |-> << >>, error |-> body.errors]
    ELSE [kind |-> "Undecodable", response |-> << >>, error |-> << >>]

Max(S) == CHOOSE x \in S : \A y \in S : x >= y

FindVariantLast(entries, variant) ==
    LET I == {i \in DOMAIN entries : entries[i].variant = variant}
    IN  IF I = {} THEN None ELSE Some(entries[Max(I)])

\* content.iter().find_map(..): the first entry of the variant
FindVariant(entries, variant) ==
    LET I == {i \in DOMAIN entries : entries[i].variant = variant}
    IN  IF I = {} THEN None ELSE Some(entries[Min(I)])

\* anyhow::Result: Err(..) with its message and, for the Error envelope, the
\* provider's error entries; Ok(value)
Failure(why) == [ok |-> FALSE, why |-> why, errors |-> << >>]
ProviderFailureFirst(errors) ==
    [ok |-> FALSE, why |-> "Error: {:?}",
     errors |-> SubSeq(errors, 1, Min({1, Len(errors)}))]
ProviderFailure(errors) == [ok |-> FALSE, why |-> "Error: {:?}", errors |-> errors]
NoFailure == [ok |-> TRUE, why |-> "", errors |-> << >>]

Success(value) == [ok |-> TRUE, value |-> value]

\* ------------------------------------------------------- handshake requests
Call(endpoint, authentication, signature, body) ==
    [endpoint |-> endpoint, authentication |-> authentication,
     signature |-> signature, body |-> body]

\* get_installation_token: .post(Installation).json(&data), no headers
InstallationCall(keypair) ==
    Call("installation", None, None, <<"client_public_key", PublicKeyOf(keypair)>>)

\* register_device: Payload, both headers
DeviceServerCall(api_key, session_token, private_key) ==
    LET body_data == <<"description", "bunqyy", "secret", api_key, "permitted_ips", << >> >>
    IN  Call("device-server", Some(session_token),
             Some(SignBytesDataToString(body_data, private_key)), body_data)

SessionServerCallUnsigned(api_key, installation_token, private_key) ==
    LET body_data == <<"secret", api_key>>
    IN  Call("session-server", Some(installation_token), None, body_data)

\* create_session: Payload { secret }, both headers
SessionServerCall(api_key, installation_token, private_key) ==
    LET body_data == <<"secret", api_key>>
    IN  Call("session-server", Some(installation_token),
             Some(SignBytesDataToString(body_data, private_key)), body_data)

\* ------------------------------------------------ handshake response handling
InstallationContentClosed == {"Token", "ServerPublicKey"}

\* get_installation_token::Content has an untagged Unknown(Value) variant:
\* every entry decodes.
InstallationContent == Variants

\* get_installation_token, from the response on
GetInstallationToken(keypair, body) ==
    LET response == ProcessResponseContent(body, InstallationContent)
        token == FindVariant(response.response, "Token")
        server_public_key == FindVariant(response.response, "ServerPublicKey")
    IN  IF body.shape = "Transport" THEN Failure("transport")
        ELSE IF response.kind = "Undecodable" THEN Failure("deserialization")
        ELSE IF response.kind = "Error" THEN ProviderFailure(response.error)
        ELSE IF IsSome(token) /\ IsSome(server_public_key)
        THEN Success(InstallationContext(Unwrap(token).token, PrivateKeyOf(keypair),
                                         PublicKeyOf(keypair),
                                         Unwrap(server_public_key).server_public_key))
        ELSE Failure("Token or ServerPublicKey not found in response")

\* register_device::Content is a struct with the one field "Id"
DeviceContent == {"Id"}

\* register_device, from the response on
RegisterDevice(body) ==
    LET response == ProcessResponseContent(body, DeviceContent)
    IN  IF body.shape = "Transport" THEN Failure("transport")
        ELSE IF response.kind = "Undecodable" THEN Failure("deserialization")
        ELSE IF response.kind = "Error" THEN ProviderFailure(response.error)
        ELSE IF response.response # << >>
        THEN Success(response.response[1].id)
        ELSE Failure("Id not found in response")

\* create_session::Content is a closed enum: Token, UserApiKey, Id
SessionContent == {"Token", "UserApiKey", "Id"}

CreateSessionGrantedTimeout(body, t) ==
    LET response == ProcessResponseContent(body, SessionContent)
        token == FindVariant(response.response, "Token")
        user_api_key == FindVariant(response.response, "UserApiKey")
    IN  IF body.shape = "Transport" THEN Failure("transport")
        ELSE IF response.kind = "Undecodable" THEN Failure("deserialization")
        ELSE IF response.kind = "Error" THEN ProviderFailure(response.error)
        ELSE IF IsSome(token) /\ IsSome(user_api_key)
        THEN LET k == Unwrap(user_api_key)
             IN  Success(SessionContext(
                    Unwrap(token).token,
                    t + k.granted_by_user.session_timeout,
                    k.id,
                    SessionUserApiKey(
                        k.id,
                        UserInformation(k.requested_by_user.id,
                                        k.requested_by_user.display_name,
                                        k.requested_by_user.public_nick_name,
                                        k.requested_by_user.session_timeout),
                        UserInformation(k.requested_by_user.id,
                                        k.granted_by_user.display_name,
                                        k.granted_by_user.public_nick_name,
                                        k.granted_by_user.session_timeout))))
        ELSE Failure("Token or UserApiKey not found in response")

\* create_session, from the response on; t is Utc::now() when it is handled
CreateSession(body, t) ==
    LET response == ProcessResponseContent(body, SessionContent)
        token == FindVariant(response.response, "Token")
        user_api_key == FindVariant(response.response, "UserApiKey")
    IN  IF body.shape = "Transport" THEN Failure("transport")
        ELSE IF response.kind = "Undecodable" THEN Failure("deserialization")
        ELSE IF response.kind = "Error" THEN ProviderFailure(response.error)
        ELSE IF IsSome(token) /\ IsSome(user_api_key)
        THEN LET k == Unwrap(user_api_key)
             IN  Success(SessionContext(
                    Unwrap(token).token,
                    t + k.requested_by_user.session_timeout,
                    k.id,
                    SessionUserApiKey(
                        k.id,
                        UserInformation(k.requested_by_user.id,
                                        k.requested_by_user.display_name,
                                        k.requested_by_user.public_nick_name,
                                        k.requested_by_user.session_timeout),
                        UserInformation(k.requested_by_user.id,
                                        k.granted_by_user.display_name,
                                        k.granted_by_user.public_nick_name,
                                        k.granted_by_user.session_timeout))))
        ELSE Failure("Token or UserApiKey not found in response")

\* --------------------------------------------------------- ContextBuilder
NewForEnvironment(environment) ==
    [environment |-> environment, api_key |-> None, installation_context |-> None,
     device_id |-> None, session_context |-> None]

BuildWithoutSession(b) ==
    IF IsSome(b.api_key) /\ IsSome(b.installation_context)
    THEN Success(ApiContext(Unwrap(b.api_key), b.environment,
                            Unwrap(b.installation_context),
                            IF IsSome(b.session_context) THEN Unwrap(b.session_context)
                            ELSE NullSession))
    ELSE Failure("MissingDataToBuildApiContext")

\* ContextBuilder::build
Build(b) ==
    IF IsSome(b.api_key) /\ IsSome(b.installation_context) /\ IsSome(b.session_context)
    THEN Success(ApiContext(Unwrap(b.api_key), b.environment,
                            Unwrap(b.installation_context), Unwrap(b.session_context)))
    ELSE Failure("MissingDataToBuildApiContext")

\* --------------------------------------------------------- credential file
\* serde_json::to_string(&context): a JSON object is the sequence of its
\* <<key, value>> members in field order; a DateTime<Utc> is written as an
\* RFC 3339 string.
Rfc3339(seconds) == <<"rfc3339", seconds>>
ParseRfc3339(text) == text[2]

UserToJson(u) ==
    << <<"id", u.id>>, <<"display_name", u.display_name>>,
       <<"public_nick_name", u.public_nick_name>>,
       <<"session_timeout", u.session_timeout>> >>

SessionToJson(s) ==
    << <<"token", s.token>>, <<"valid_until", Rfc3339(s.valid_until)>>,
       <<"user_id", s.user_id>>,
       <<"user_api_key",
         << <<"id", s.user_api_key.id>>,
            <<"requested_by_user", UserToJson(s.user_api_key.requested_by_user)>>,
            <<"granted_by_user", UserToJson(s.user_api_key.granted_by_user)>> >> >> >>

InstallationToJson(i) ==
    << <<"token", i.token>>, <<"private_key_client", i.private_key_client>>,
       <<"public_key_client", i.public_key_client>>,
       <<"public_key_server", i.public_key_server>> >>

ToJson(c) ==
    << <<"api_key", c.api_key>>, <<"environment", c.environment>>,
       <<"installation_context", InstallationToJson(c.installation_context)>>,
       <<"session_context", SessionToJson(c.session_context)>> >>

HasMember(object, key) == \E i \in DOMAIN object : object[i][1] = key
Member(object, key) == object[CHOOSE i \in DOMAIN object : object[i][1] = key][2]

UserFromJson(j) ==
    UserInformation(Member(j, "id"), Member(j, "display_name"),
                    Member(j, "public_nick_name"), Member(j, "session_timeout"))

SessionFromJson(j) ==
    LET k == Member(j, "user_api_key")
    IN  SessionContext(Member(j, "token"), ParseRfc3339(Member(j, "valid_until")),
                       Member(j, "user_id"),
                       SessionUserApiKey(Member(k, "id"),
                                         UserFromJson(Member(k, "requested_by_user")),
                                         UserFromJson(Member(k, "granted_by_user"))))

InstallationFromJsonSwappingKeys(j) ==
    InstallationContext(Member(j, "token"), Member(j, "public_key_client"),
                        Member(j, "private_key_client"), Member(j, "public_key_server"))

InstallationFromJson(j) ==
    InstallationContext(Member(j, "token"), Member(j, "private_key_client"),
                        Member(j, "public_key_client"), Member(j, "public_key_server"))

\* serde_json::from_str::<ApiContext> succeeds
Parses(j) ==
    /\ HasMember(j, "api_key") /\ HasMember(j, "environment")
    /\ HasMember(j, "installation_context") /\ HasMember(j, "session_context")

FromJson(j) ==
    ApiContext(Member(j, "api_key"), Member(j, "environment"),
               InstallationFromJson(Member(j, "installation_context")),
               SessionFromJson(Member(j, "session_context")))

NoFile == [exists |-> FALSE, content |-> << >>, mode |-> "none"]
\* persist_config: fs::write, then set_permissions(0o400)
PersistedFile(context) == [exists |-> TRUE, content |-> ToJson(context), mode |-> "0400"]
ContextFileNeverFound(f) == FALSE

\* context_file_exists: File::open(path).is_ok()
ContextFileExists(f) == f.exists

\* a bundle an earlier run of the program persisted
StoredValidUntil == {10, 11}
StoredContext(valid_until) ==
    ApiContext("ak0", "PRODUCTION",
               InstallationContext(InstallationTokenOf(0), PrivateKeyOf(0),
                                   PublicKeyOf(0), ServerKey),
               SessionContext(SessionTokenOf(0), valid_until, 42,
                              SessionUserApiKey(42, UserInformation(7, "A", "a", 11),
                                                UserInformation(7, "B", "b", 3600))))
\* a file that is there and is not a serialized ApiContext
CorruptFile == [exists |-> TRUE, content |-> << <<"api_key", "ak0">> >>, mode |-> "0400"]
InitialFiles ==
    {NoFile, CorruptFile} \cup {PersistedFile(StoredContext(v)) : v \in StoredValidUntil}

\* ------------------------------------------------------ provider's answers
InstallationBodies(n) ==
    {ResponseBody(<<TokenEntry(InstallationTokenOf(n)), ServerPublicKeyEntry(ServerKey)>>),
     ResponseBody(<<ServerPublicKeyEntry(ServerKey), OtherEntry,
                    TokenEntry(InstallationTokenOf(n))>>),
     ResponseBody(<<TokenEntry(InstallationTokenOf(n))>>),
     ResponseBody(<<ServerPublicKeyEntry(ServerKey)>>),
     ResponseBody(<< >>),
     TransportFailure} \cup ErrorBodies

DeviceBodies ==
    {ResponseBody(<<IdEntry(1)>>), ResponseBody(<<IdEntry(2), IdEntry(1)>>),
     ResponseBody(<<OtherEntry, IdEntry(1)>>), ResponseBody(<< >>),
     TransportFailure} \cup ErrorBodies

SessionBodies(n) ==
    UNION {{ResponseBody(<<TokenEntry(SessionTokenOf(n)), UserApiKeyEntry(timeout)>>),
            ResponseBody(<<IdEntry(1), UserApiKeyEntry(timeout),
                           TokenEntry(SessionTokenOf(n))>>),
            ResponseBody(<<OtherEntry, TokenEntry(SessionTokenOf(n)),
                           UserApiKeyEntry(timeout)>>),
            ResponseBody(<<UserApiKeyEntry(timeout)>>)} : timeout \in SessionTimeouts}
    \cup {ResponseBody(<<TokenEntry(SessionTokenOf(n))>>), TransportFailure}
    \cup ErrorBodies

\* ------------------------------------------------------------------ state
VARIABLES
    now,          \* Utc::now(), whole seconds
    file,         \* the credential file at setup_context.storage_path
    fileWrites,   \* how many times the file was written
    environment,  \* setup_context.environment
    bpc,          \* where get_api_context is
    builder,      \* setup_api_context's ContextBuilder
    calls,        \* the handshake calls made by setup_api_context, in order
    issued,       \* how many sessions the provider has issued to this program
    apiContext,   \* the bundle inside the Arc<Mutex<ApiContext>>
    origin,       \* the bundle as get_api_context returned it
    fileAtStart,  \* the credential file as get_api_context found it
    bootError,    \* the Err a handshake step returned, NoFailure when none did
    lock,         \* the request holding the mutex, or Free
    pc,           \* where each request is in the middleware pipeline
    stage,        \* index in Pipeline of the middleware a request is in
    req,          \* each request: body and the two well-known headers
    local,        \* refresh_session's local_api_context
    negotiation,  \* the session-server call refresh_session made
    newSession,   \* refresh_session's new_session
    signCtx,      \* SigningMiddleware's context
    observed,     \* what the expiry check saw: seconds left, token, verdict
    result,       \* what the caller of the client got
    trace,        \* each request's steps so far
    commits,      \* the requests whose refresh_session wrote the bundle, in order
    applied       \* the function applied on its own, with its arguments and result

bootVars == <<file, fileWrites, environment, bpc, builder, calls, origin,
             fileAtStart, bootError>>
reqVars == <<lock, pc, stage, req, local, negotiation, newSession, signCtx,
             observed, result, trace>>
vars == <<now, issued, apiContext, bootVars, reqVars, commits, applied>>

NoRequest == [body |-> None, authentication |-> << >>, signature |-> << >>]
NoObservation == [checked |-> FALSE, remaining |-> 0, token |-> NoToken, needs |-> FALSE]
NoCall == Call("", None, None, << >>)
NoApplication == [fn |-> "", args |-> << >>, ret |-> << >>]

Init ==
    /\ now = 0
    /\ file \in InitialFiles
    /\ fileAtStart = file
    /\ bootError = NoFailure
    /\ fileWrites = 0
    /\ environment \in Environments
    /\ bpc = "start"
    /\ builder = NewForEnvironment("")
    /\ calls = << >>
    /\ issued = 0
    /\ apiContext = NullContext
    /\ origin = NullContext
    /\ lock = Free
    /\ pc = [r \in Requests |-> "idle"]
    /\ stage = [r \in Requests |-> 0]
    /\ req = [r \in Requests |-> NoRequest]
    /\ local = [r \in Requests |-> NullContext]
    /\ negotiation = [r \in Requests |-> NoCall]
    /\ newSession = [r \in Requests |-> NullSession]
    /\ signCtx = [r \in Requests |-> NullContext]
    /\ observed = [r \in Requests |-> NoObservation]
    /\ result = [r \in Requests |-> "pending"]
    /\ trace = [r \in Requests |-> << >>]
    /\ commits = << >>
    /\ applied = NoApplication

\* Time passes. The clock is read by create_session (Utc::now() in valid_until)
\* and by needs_to_be_refreshed only, so it is advanced where one of them is
\* about to read it: a tick anywhere else commutes with the steps up to there.
ClockIsAboutToBeRead ==
    \/ bpc = "session_server"
    \/ \E r \in Requests : pc[r] \in {"check", "negotiating"}

Tick ==
    /\ now < MaxTime
    /\ ClockIsAboutToBeRead
    /\ now' = now + 1
    /\ UNCHANGED <<applied, issued, apiContext, bootVars, reqVars, commits>>

\* --------------------------------------------------------- get_api_context
\* get_api_context, the branch taken when the file exists: read and parse
\* (both unwrap)
LoadContext ==
    /\ bpc = "start"
    /\ ContextFileExists(file)
    /\ IF Parses(file.content)
       THEN /\ bpc' = "returned_ok"
            /\ apiContext' = FromJson(file.content)
            /\ origin' = FromJson(file.content)
       ELSE /\ bpc' = "panicked"
            /\ UNCHANGED <<apiContext, origin>>
    /\ UNCHANGED <<applied, now, issued, file, fileWrites, environment, builder, calls,
                   fileAtStart, bootError, reqVars, commits>>

\* get_api_context, the other branch: setup_api_context starts
StartSetup ==
    /\ bpc = "start"
    /\ ~ContextFileExists(file)
    /\ bpc' = "access_token"
    /\ UNCHANGED <<applied, now, issued, apiContext, file, fileWrites, environment, builder,
                   calls, origin, fileAtStart, bootError, reqVars, commits>>

\* setup_api_context: get_access_token(..).await? (which may also exit(1)),
\* new_for_environment, set_access_token
AccessTokenStep ==
    /\ bpc = "access_token"
    /\ \/ \E token \in AccessTokens :
            /\ builder' = [NewForEnvironment(environment) EXCEPT !.api_key = Some(token)]
            /\ bpc' = "installation"
            /\ UNCHANGED bootError
       \/ /\ bpc' = "returned_err"
          /\ bootError' = Failure("access token")
          /\ UNCHANGED builder
       \/ /\ bpc' = "exited"
          /\ UNCHANGED <<builder, bootError>>
    /\ UNCHANGED <<applied, now, issued, apiContext, file, fileWrites, environment, calls,
                   origin, fileAtStart, reqVars, commits>>

InstallationStepSkippingDevice ==
    /\ bpc = "installation"
    /\ calls' = Append(calls, InstallationCall(1))
    /\ \E body \in InstallationBodies(1) :
         LET installation_context == GetInstallationToken(1, body)
         IN  IF installation_context.ok
             THEN /\ builder' = [builder EXCEPT !.installation_context =
                                                   Some(installation_context.value)]
                  /\ bpc' = "session_server"
                  /\ UNCHANGED bootError
             ELSE /\ bpc' = "returned_err"
                  /\ bootError' = installation_context
                  /\ UNCHANGED builder
    /\ UNCHANGED <<applied, now, issued, apiContext, file, fileWrites, environment, origin,
                   fileAtStart, reqVars, commits>>

\* setup_api_context: get_installation_token().await?, set_installation_context
InstallationStep ==
    /\ bpc = "installation"
    /\ calls' = Append(calls, InstallationCall(1))
    /\ \E body \in InstallationBodies(1) :
         LET installation_context == GetInstallationToken(1, body)
         IN  IF installation_context.ok
             THEN /\ builder' = [builder EXCEPT !.installation_context =
                                                   Some(installation_context.value)]
                  /\ bpc' = "device_server"
                  /\ UNCHANGED bootError
             ELSE /\ bpc' = "returned_err"
                  /\ bootError' = installation_context
                  /\ UNCHANGED builder
    /\ UNCHANGED <<applied, now, issued, apiContext, file, fileWrites, environment, origin,
                   fileAtStart, reqVars, commits>>

\* setup_api_context: register_device(..).await?, set_device_id
DeviceStepIgnoringFailure ==
    /\ bpc = "device_server"
    /\ LET installation_context == Unwrap(builder.installation_context)
       IN  calls' = Append(calls, DeviceServerCall(Unwrap(builder.api_key),
                                                   installation_context.token,
                                                   installation_context.private_key_client))
    /\ \E body \in DeviceBodies :
         LET device_server_id == RegisterDevice(body)
         IN  IF device_server_id.ok
             THEN /\ builder' = [builder EXCEPT !.device_id = Some(device_server_id.value)]
                  /\ bpc' = "session_server"
                  /\ UNCHANGED bootError
             ELSE /\ bpc' = "session_server"
                  /\ bootError' = device_server_id
                  /\ UNCHANGED builder
    /\ UNCHANGED <<applied, now, issued, apiContext, file, fileWrites, environment, origin,
                   fileAtStart, reqVars, commits>>

DeviceStep ==
    /\ bpc = "device_server"
    /\ LET installation_context == Unwrap(builder.installation_context)
       IN  calls' = Append(calls, DeviceServerCall(Unwrap(builder.api_key),
                                                   installation_context.token,
                                                   installation_context.private_key_client))
    /\ \E body \in DeviceBodies :
         LET device_server_id == RegisterDevice(body)
         IN  IF device_server_id.ok
             THEN /\ builder' = [builder EXCEPT !.device_id = Some(device_server_id.value)]
                  /\ bpc' = "session_server"
                  /\ UNCHANGED bootError
             ELSE /\ bpc' = "returned_err"
                  /\ bootError' = device_server_id
                  /\ UNCHANGED builder
    /\ UNCHANGED <<applied, now, issued, apiContext, file, fileWrites, environment, origin,
                   fileAtStart, reqVars, commits>>

\* setup_api_context: create_session(..).await?, set_session_context
SessionStep ==
    /\ bpc = "session_server"
    /\ LET installation_context == Unwrap(builder.installation_context)
       IN  calls' = Append(calls, SessionServerCall(Unwrap(builder.api_key),
                                                    installation_context.token,
                                                    installation_context.private_key_client))
    /\ \E body \in SessionBodies(issued + 1) :
         LET session_context == CreateSession(body, now)
         IN  /\ issued' = IF session_context.ok THEN issued + 1 ELSE issued
             /\ IF session_context.ok
                THEN /\ builder' = [builder EXCEPT !.session_context =
                                                      Some(session_context.value)]
                     /\ bpc' = "build"
                     /\ UNCHANGED bootError
                ELSE /\ bpc' = "returned_err"
                     /\ bootError' = session_context
                     /\ UNCHANGED builder
    /\ UNCHANGED <<applied, now, apiContext, file, fileWrites, environment, origin,
                   fileAtStart, reqVars, commits>>

\* setup_api_context: context_builder.build(); get_api_context: persist_config
\* and Ok(api_context)
BuildAndPersist ==
    /\ bpc = "build"
    /\ LET api_context == Build(builder)
       IN  IF api_context.ok
           THEN /\ file' = PersistedFile(api_context.value)
                /\ fileWrites' = fileWrites + 1
                /\ apiContext' = api_context.value
                /\ origin' = api_context.value
                /\ bpc' = "returned_ok"
                /\ UNCHANGED bootError
           ELSE /\ bpc' = "returned_err"
                /\ bootError' = api_context
                /\ UNCHANGED <<file, fileWrites, apiContext, origin>>
    /\ UNCHANGED <<applied, now, issued, environment, builder, calls, fileAtStart, reqVars,
                   commits>>

GetApiContext ==
    \/ LoadContext \/ StartSetup \/ AccessTokenStep \/ InstallationStep
    \/ DeviceStep \/ SessionStep \/ BuildAndPersist

\* ------------------------------------------------------ middleware pipeline
\* get_authenticated_client: the middlewares in the order of .with(..); the
\* first added is the outermost
PipelineSigningFirst == <<"Signing", "SessionRefreshing">>

Pipeline == <<"SessionRefreshing", "Signing">>

\* where a request goes when middleware i is entered; past the last one is
\* the reqwest client itself
EntryPc(i) ==
    IF i > Len(Pipeline) THEN "send"
    ELSE IF Pipeline[i] = "SessionRefreshing" THEN "check_lock" ELSE "sign_lock"

\* next.run(req, extensions)
NextRun(r) ==
    /\ stage' = [stage EXCEPT ![r] = stage[r] + 1]
    /\ pc' = [pc EXCEPT ![r] = EntryPc(stage[r] + 1)]

Log(r, event) == trace' = [trace EXCEPT ![r] = Append(trace[r], event)]

\* client.get(url) / .post(url).body(..) followed by .send(): the request
\* enters the first middleware.
SendRequest(r) ==
    /\ bpc = "returned_ok"
    /\ pc[r] = "idle"
    /\ \E body \in {None} \cup {Some(b) : b \in Bodies} :
         req' = [req EXCEPT ![r] = [NoRequest EXCEPT !.body = body]]
    /\ NextRun(r)
    /\ UNCHANGED <<applied, now, issued, apiContext, bootVars, lock, local, negotiation,
                   newSession, signCtx, observed, result, trace,
                   commits>>

\* api_context.lock().await, at each of its four places
AfterLock(at) ==
    CASE at = "check_lock" -> "check"
      [] at = "snapshot_lock" -> "snapshot"
      [] at = "commit_lock" -> "commit"
      [] at = "sign_lock" -> "sign"

AcquireLock(r) ==
    /\ pc[r] \in {"check_lock", "snapshot_lock", "commit_lock", "sign_lock"}
    /\ lock = Free
    /\ lock' = r
    /\ pc' = [pc EXCEPT ![r] = AfterLock(pc[r])]
    /\ UNCHANGED <<applied, now, issued, apiContext, bootVars, stage, req, local, negotiation,
                   newSession, signCtx, observed, result, trace,
                   commits>>

CheckExpiryAlwaysRefreshing(r) ==
    /\ pc[r] = "check"
    /\ lock = r
    /\ lock' = Free
    /\ observed' = [observed EXCEPT ![r] =
                       [checked |-> TRUE,
                        remaining |-> apiContext.session_context.valid_until - now,
                        token |-> apiContext.session_context.token,
                        needs |-> NeedsToBeRefreshed(apiContext.session_context, now)]]
    /\ pc' = [pc EXCEPT ![r] = "snapshot_lock"]
    /\ Log(r, "check")
    /\ UNCHANGED <<applied, now, issued, apiContext, bootVars, stage, req, local,
                   negotiation, newSession, signCtx, result,
                   commits>>

CheckExpiryHoldingLock(r) ==
    /\ pc[r] = "check"
    /\ lock = r
    /\ LET needs == NeedsToBeRefreshed(apiContext.session_context, now)
       IN  /\ observed' = [observed EXCEPT ![r] =
                              [checked |-> TRUE,
                               remaining |-> apiContext.session_context.valid_until - now,
                               token |-> apiContext.session_context.token,
                               needs |-> needs]]
           /\ IF needs
              THEN /\ pc' = [pc EXCEPT ![r] = "snapshot_lock"]
                   /\ UNCHANGED <<stage, lock>>
              ELSE /\ NextRun(r)
                   /\ lock' = Free
    /\ Log(r, "check")
    /\ UNCHANGED <<applied, now, issued, apiContext, bootVars, req, local, negotiation,
                   newSession, signCtx, result,
                   commits>>

\* SessionRefreshingMiddleware::handle: the condition of the if; the guard is
\* a temporary of the condition and is dropped when it has been evaluated
CheckExpiry(r) ==
    /\ pc[r] = "check"
    /\ lock = r
    /\ lock' = Free
    /\ LET needs == NeedsToBeRefreshed(apiContext.session_context, now)
       IN  /\ observed' = [observed EXCEPT ![r] =
                              [checked |-> TRUE,
                               remaining |-> apiContext.session_context.valid_until - now,
                               token |-> apiContext.session_context.token,
                               needs |-> needs]]
           /\ IF needs
              THEN /\ pc' = [pc EXCEPT ![r] = "snapshot_lock"]
                   /\ UNCHANGED stage
              ELSE NextRun(r)
    /\ Log(r, "check")
    /\ UNCHANGED <<applied, now, issued, apiContext, bootVars, req, local, negotiation,
                   newSession, signCtx, result,
                   commits>>

\* refresh_session: local_api_context = api_context.lock().await.clone(); the
\* guard is dropped at the end of the statement, and create_session sends
SnapshotHoldingLock(r) ==
    /\ pc[r] = "snapshot"
    /\ lock = r
    /\ local' = [local EXCEPT ![r] = apiContext]
    /\ negotiation' = [negotiation EXCEPT ![r] =
                          SessionServerCall(apiContext.api_key,
                                            apiContext.installation_context.token,
                                            apiContext.installation_context.private_key_client)]
    /\ pc' = [pc EXCEPT ![r] = "negotiating"]
    /\ Log(r, "snapshot")
    /\ UNCHANGED <<applied, now, issued, apiContext, bootVars, lock, stage, req, newSession,
                   signCtx, observed, result,
                   commits>>

SnapshotReinstalling(r) ==
    /\ pc[r] = "snapshot"
    /\ lock = r
    /\ lock' = Free
    /\ local' = [local EXCEPT ![r] = apiContext]
    /\ negotiation' = [negotiation EXCEPT ![r] = InstallationCall(2)]
    /\ pc' = [pc EXCEPT ![r] = "negotiating"]
    /\ Log(r, "snapshot")
    /\ UNCHANGED <<applied, now, issued, apiContext, bootVars, stage, req, newSession,
                   signCtx, observed, result,
                   commits>>

Snapshot(r) ==
    /\ pc[r] = "snapshot"
    /\ lock = r
    /\ lock' = Free
    /\ local' = [local EXCEPT ![r] = apiContext]
    /\ negotiation' = [negotiation EXCEPT ![r] =
                          SessionServerCall(apiContext.api_key,
                                            apiContext.installation_context.token,
                                            apiContext.installation_context.private_key_client)]
    /\ pc' = [pc EXCEPT ![r] = "negotiating"]
    /\ Log(r, "snapshot")
    /\ UNCHANGED <<applied, now, issued, apiContext, bootVars, stage, req, newSession,
                   signCtx, observed, result,
                   commits>>

OnRefreshErrorCarryOn(r) ==
    /\ NextRun(r)
    /\ UNCHANGED result

\* SessionRefreshingMiddleware::handle: if let Err(e) = refresh_result
\* { return Err(Middleware(e)) }
OnRefreshError(r) ==
    /\ result' = [result EXCEPT ![r] = "refresh_error"]
    /\ pc' = [pc EXCEPT ![r] = "failed"]
    /\ UNCHANGED stage

\* refresh_session: create_session(..).await.with_context(..)? answers
Negotiate(r) ==
    /\ pc[r] = "negotiating"
    /\ \E body \in SessionBodies(issued + 1) :
         LET new_session == CreateSession(body, now)
         IN  /\ issued' = IF new_session.ok THEN issued + 1 ELSE issued
             /\ IF new_session.ok
                THEN /\ newSession' = [newSession EXCEPT ![r] = new_session.value]
                     /\ pc' = [pc EXCEPT ![r] = "commit_lock"]
                     /\ UNCHANGED <<result, stage>>
                     /\ Log(r, "negotiated")
                ELSE /\ OnRefreshError(r)
                     /\ UNCHANGED newSession
                     /\ Log(r, "refresh_failed")
    /\ UNCHANGED <<applied, now, apiContext, bootVars, lock, req, local, negotiation,
                   signCtx, observed,
                   commits>>

\* refresh_session: *api_context.lock().await =
\*     local_api_context.with_session_context(new_session)
CommitUnlessChanged(r) ==
    /\ pc[r] = "commit"
    /\ lock = r
    /\ lock' = Free
    /\ apiContext' = IF apiContext = local[r]
                     THEN WithSessionContext(local[r], newSession[r])
                     ELSE apiContext
    /\ local' = [local EXCEPT ![r] = NullContext]
    /\ commits' = Append(commits, r)
    /\ NextRun(r)
    /\ Log(r, "commit")
    /\ UNCHANGED <<applied, now, issued, bootVars, req, negotiation, newSession, signCtx,
                   observed, result>>

CommitThenCheckAgain(r) ==
    /\ pc[r] = "commit"
    /\ lock = r
    /\ lock' = Free
    /\ apiContext' = WithSessionContext(local[r], newSession[r])
    /\ local' = [local EXCEPT ![r] = NullContext]
    /\ commits' = Append(commits, r)
    /\ pc' = [pc EXCEPT ![r] = "check_lock"]
    /\ Log(r, "commit")
    /\ UNCHANGED <<applied, now, issued, bootVars, stage, req, negotiation, newSession,
                   signCtx, observed, result>>

CommitKeepingLater(r) ==
    /\ pc[r] = "commit"
    /\ lock = r
    /\ lock' = Free
    /\ apiContext' = IF newSession[r].valid_until >= apiContext.session_context.valid_until
                     THEN WithSessionContext(local[r], newSession[r])
                     ELSE apiContext
    /\ local' = [local EXCEPT ![r] = NullContext]
    /\ commits' = Append(commits, r)
    /\ NextRun(r)
    /\ Log(r, "commit")
    /\ UNCHANGED <<applied, now, issued, bootVars, req, negotiation, newSession, signCtx,
                   observed, result>>

CommitAndPersist(r) ==
    /\ pc[r] = "commit"
    /\ lock = r
    /\ lock' = Free
    /\ apiContext' = WithSessionContext(local[r], newSession[r])
    /\ file' = PersistedFile(WithSessionContext(local[r], newSession[r]))
    /\ fileWrites' = fileWrites + 1
    /\ local' = [local EXCEPT ![r] = NullContext]
    /\ commits' = Append(commits, r)
    /\ NextRun(r)
    /\ Log(r, "commit")
    /\ UNCHANGED <<applied, now, issued, environment, bpc, builder, calls, origin,
                   fileAtStart, bootError, req, negotiation, newSession, signCtx,
                   observed, result>>

Commit(r) ==
    /\ pc[r] = "commit"
    /\ lock = r
    /\ lock' = Free
    /\ apiContext' = WithSessionContext(local[r], newSession[r])
    /\ local' = [local EXCEPT ![r] = NullContext]
    /\ commits' = Append(commits, r)
    /\ NextRun(r)
    /\ Log(r, "commit")
    /\ UNCHANGED <<applied, now, issued, bootVars, req, negotiation, newSession, signCtx,
                   observed, result>>

\* SigningMiddleware::handle, the headers: Signature when there is a body,
\* Authentication always (headers_mut().append)
SignedRequestWhenBody(request, context) ==
    IF IsSome(request.body)
    THEN [request EXCEPT
            !.signature = Append(@, SignBytesDataToString(
                                       Unwrap(request.body),
                                       context.installation_context.private_key_client)),
            !.authentication = Append(@, context.session_context.token)]
    ELSE request

SignedRequestAlways(request, context) ==
    [request EXCEPT
        !.signature = Append(@, SignBytesDataToString(
                                   request.body,
                                   context.installation_context.private_key_client)),
        !.authentication = Append(@, context.session_context.token)]

SignedRequest(request, context) ==
    LET signed == IF IsSome(request.body)
                  THEN [request EXCEPT !.signature =
                           Append(@, SignBytesDataToString(
                                        Unwrap(request.body),
                                        context.installation_context.private_key_client))]
                  ELSE request
    IN  [signed EXCEPT !.authentication = Append(@, context.session_context.token)]

\* SigningMiddleware::handle: context = api_context.lock().await.clone(), the
\* headers, next.run
Sign(r) ==
    /\ pc[r] = "sign"
    /\ lock = r
    /\ lock' = Free
    /\ signCtx' = [signCtx EXCEPT ![r] = apiContext]
    /\ req' = [req EXCEPT ![r] = SignedRequest(req[r], apiContext)]
    /\ NextRun(r)
    /\ Log(r, "sign")
    /\ UNCHANGED <<applied, now, issued, apiContext, bootVars, local, negotiation, newSession,
                   observed, result,
                   commits>>

\* the reqwest client sends the request
Dispatch(r) ==
    /\ pc[r] = "send"
    /\ pc' = [pc EXCEPT ![r] = "in_flight"]
    /\ Log(r, "dispatch")
    /\ UNCHANGED <<applied, now, issued, apiContext, bootVars, lock, stage, req, local,
                   negotiation, newSession, signCtx, observed, result,
                   commits>>

\* the client's result (a response or a transport error) comes back through
\* both middlewares unchanged; their locals are dropped
Respond(r) ==
    /\ pc[r] = "in_flight"
    /\ result' = [result EXCEPT ![r] = "returned"]
    /\ signCtx' = [signCtx EXCEPT ![r] = NullContext]
    /\ pc' = [pc EXCEPT ![r] = "done"]
    /\ UNCHANGED <<applied, now, issued, apiContext, bootVars, lock, stage, req, local,
                   negotiation, newSession, observed, trace,
                   commits>>

Next ==
    \/ Tick
    \/ GetApiContext
    \/ \E r \in Requests :
         \/ SendRequest(r) \/ AcquireLock(r) \/ CheckExpiry(r) \/ Snapshot(r)
         \/ Negotiate(r) \/ Commit(r) \/ Sign(r) \/ Dispatch(r) \/ Respond(r)

Spec == Init /\ [][Next]_vars

\* Scheduling: the tokio runtime polls every task that can make progress, the
\* mutex hands the lock to a waiter once it is free, and the provider answers
\* every call it is sent. A request that is never sent is not owed anything.
RequestStep(r) ==
    \/ AcquireLock(r) \/ CheckExpiry(r) \/ Snapshot(r) \/ Negotiate(r)
    \/ Commit(r) \/ Sign(r) \/ Dispatch(r) \/ Respond(r)

FairSpec == Spec /\ \A r \in Requests : WF_vars(RequestStep(r))

\* ------------------------------------------- functions applied on their own
\* The functions of the program called directly, as its tests call them, on
\* inputs the bootstrap and the refresh never meet: a builder with setters
\* left out, any bundle, any envelope.
SeqsUpTo(S, n) == UNION {[1..k -> S] : k \in 0..n}

Builders ==
    {[environment |-> e, api_key |-> k, installation_context |-> i,
      device_id |-> d, session_context |-> c] :
        e \in Environments,
        k \in {None, Some("ak1")},
        i \in {None, Some(StoredContext(11).installation_context)},
        d \in {None, Some(1)},
        c \in {None, Some(StoredContext(11).session_context)}}

ValidContexts ==
    {ApiContext(k, e,
                InstallationContext(InstallationTokenOf(n), PrivateKeyOf(n),
                                    PublicKeyOf(n), ServerKey),
                SessionContext(SessionTokenOf(n), v, 42,
                               SessionUserApiKey(42, UserInformation(7, "A", "a", t),
                                                 UserInformation(g, "B", "b", 3600)))) :
        k \in {"ak0", "ak1"}, e \in {"SANDBOX", "PRODUCTION"}, n \in {1, 2},
        v \in {0, 10, 11}, t \in SessionTimeouts, g \in {7, 8}}

Entries ==
    {TokenEntry(SessionTokenOf(1)), TokenEntry(SessionTokenOf(2)),
     UserApiKeyEntry(9), UserApiKeyEntry(11), IdEntry(1), OtherEntry}
Errors == {BunqError("e", "t"), BunqError("f", "u")}
\* a body that is JSON and has neither a "Response" nor an "Error" member
NeitherBody == [shape |-> "Neither", entries |-> << >>, errors |-> << >>]
Envelopes ==
    {ResponseBody(entries) : entries \in SeqsUpTo(Entries, MaxLen)}
    \cup {ErrorBody(errors) : errors \in SeqsUpTo(Errors, MaxLen)}
    \cup {NeitherBody}
ContentTypes == {InstallationContent, DeviceContent, SessionContent}
Data == SeqsUpTo({0, 255}, MaxLen)
KeySizes == {KeyBits, 2 * KeyBits}

Applied(fn, args, ret) == [fn |-> fn, args |-> args, ret |-> ret]

\* a function is applied in a fresh process, which then does nothing else
ApplyAlone ==
    /\ bpc = "start"
    /\ ~ContextFileExists(file)
    /\ applied = NoApplication

\* ContextBuilder::build on any builder, as setup_api_context's last line,
\* followed by what get_api_context does with the result
ApplyBuild ==
    /\ ApplyAlone
    /\ \E b \in Builders :
         /\ builder' = b
         /\ applied' = Applied("build", b, Build(b))
    /\ bpc' = "build"
    /\ UNCHANGED <<now, issued, apiContext, file, fileWrites, environment, calls,
                   origin, fileAtStart, bootError, reqVars, commits>>

\* persist_config on any bundle; the program is then started on the file
ApplyPersistConfig ==
    /\ ApplyAlone
    /\ \E context \in ValidContexts :
         /\ file' = PersistedFile(context)
         /\ applied' = Applied("persist_config", context, PersistedFile(context))
    /\ fileWrites' = fileWrites + 1
    /\ UNCHANGED <<now, issued, apiContext, environment, bpc, builder, calls,
                   origin, fileAtStart, bootError, reqVars, commits>>

ApplyProcessResponseContent ==
    /\ ApplyAlone
    /\ \E body \in Envelopes, content \in ContentTypes :
         applied' = Applied("process_response_content", <<body, content>>,
                            ProcessResponseContent(body, content))
    /\ bpc' = "applied"
    /\ UNCHANGED <<now, issued, apiContext, file, fileWrites, environment, builder,
                   calls, origin, fileAtStart, bootError, reqVars, commits>>

\* create_session, from the response on, at any clock reading
ApplyCreateSession ==
    /\ ApplyAlone
    /\ \E body \in Envelopes, t \in 0..MaxTime :
         applied' = Applied("create_session", <<body, t>>, CreateSession(body, t))
    /\ bpc' = "applied"
    /\ UNCHANGED <<now, issued, apiContext, file, fileWrites, environment, builder,
                   calls, origin, fileAtStart, bootError, reqVars, commits>>

\* sign_bytes_data_to_string / the signer of create_signer, and the length
\* of the string it returns
ApplySignBytesDataToString ==
    /\ ApplyAlone
    /\ \E data \in Data, key_bits \in KeySizes :
         applied' = Applied("sign_bytes_data_to_string", <<data, key_bits>>,
                            SignedDataLen(data, key_bits))
    /\ bpc' = "applied"
    /\ UNCHANGED <<now, issued, apiContext, file, fileWrites, environment, builder,
                   calls, origin, fileAtStart, bootError, reqVars, commits>>

\* what an installation and a device-server response may hold
InstallationEntries ==
    {TokenEntry(InstallationTokenOf(1)), TokenEntry(InstallationTokenOf(2)),
     ServerPublicKeyEntry(ServerKey), ServerPublicKeyEntry(PublicKeyOf(0)),
     IdEntry(1), OtherEntry}
InstallationEnvelopes ==
    {ResponseBody(entries) : entries \in SeqsUpTo(InstallationEntries, MaxLen)}
    \cup {ErrorBody(errors) : errors \in SeqsUpTo(Errors, MaxLen)}
    \cup {NeitherBody}
DeviceEntries == {IdEntry(1), IdEntry(2), TokenEntry(InstallationTokenOf(1)), OtherEntry}
DeviceEnvelopes ==
    {ResponseBody(entries) : entries \in SeqsUpTo(DeviceEntries, MaxLen)}
    \cup {ErrorBody(errors) : errors \in SeqsUpTo(Errors, MaxLen)}
    \cup {NeitherBody}

\* get_installation_token, from the response on, with the keypair it
\* generated for the call
ApplyGetInstallationToken ==
    /\ ApplyAlone
    /\ \E body \in InstallationEnvelopes, keypair \in {1, 2} :
         applied' = Applied("get_installation_token", <<body, keypair>>,
                            GetInstallationToken(keypair, body))
    /\ bpc' = "applied"
    /\ UNCHANGED <<now, issued, apiContext, file, fileWrites, environment, builder,
                   calls, origin, fileAtStart, bootError, reqVars, commits>>

\* register_device, from the response on
ApplyRegisterDevice ==
    /\ ApplyAlone
    /\ \E body \in DeviceEnvelopes :
         applied' = Applied("register_device", <<body>>, RegisterDevice(body))
    /\ bpc' = "applied"
    /\ UNCHANGED <<now, issued, apiContext, file, fileWrites, environment, builder,
                   calls, origin, fileAtStart, bootError, reqVars, commits>>

UnitNext ==
    \/ GetApiContext
    \/ ApplyBuild \/ ApplyPersistConfig \/ ApplyProcessResponseContent
    \/ ApplyCreateSession \/ ApplySignBytesDataToString
    \/ ApplyGetInstallationToken \/ ApplyRegisterDevice

UnitSpec == Init /\ [][UnitNext]_vars

\* ------------------------------------------------------------ properties
Has(seq, e) == \E i \in DOMAIN seq : seq[i] = e
Pos(seq, e) == Min({i \in DOMAIN seq : seq[i] = e})
Before(seq, a, b) == Has(seq, a) /\ Has(seq, b) /\ Pos(seq, a) < Pos(seq, b)
Last(seq) == seq[Len(seq)]

\* the request has been handed to the reqwest client
Dispatched(r) == pc[r] \in {"in_flight", "done"}
\* no request other than r has written the shared bundle
OnlyWriter(r) == \A i \in DOMAIN commits : commits[i] = r

\* the sessions the shared bundle has held so far
SessionsHeld == {origin.session_context} \cup {newSession[commits[i]] : i \in DOMAIN commits}
\* the bundle as the writes so far leave it
LastWritten ==
    IF commits = << >> THEN origin
    ELSE [origin EXCEPT !.session_context = newSession[Last(commits)]]

\* C1: a request whose refresh found the session in need of refresh and whose
\* negotiation failed ends with the refresh error: it never enters the signing
\* middleware, is never dispatched, stays without headers, and is not among
\* the writers of the shared bundle, which is as the last writer (if any) left
\* it, the stale session included when nobody wrote.
C1_FailedRefreshAborts ==
    \A r \in Requests :
        Has(trace[r], "refresh_failed") =>
            /\ pc[r] = "failed"
            /\ result[r] = "refresh_error"
            /\ observed[r].needs
            /\ Pipeline[stage[r]] = "SessionRefreshing"
            /\ ~Has(trace[r], "sign") /\ ~Has(trace[r], "dispatch")
            /\ ~Has(trace[r], "commit")
            /\ req[r].authentication = << >> /\ req[r].signature = << >>
            /\ ~Has(commits, r)
            /\ apiContext = LastWritten

C1_Witness ==
    \E r \in Requests :
        /\ pc[r] = "failed"
        /\ observed[r].needs
        /\ apiContext = origin
        /\ apiContext.session_context.token = observed[r].token

\* C2: in every request the expiry check, and the commit of the new session if
\* there is one, come before the signing middleware reads the bundle, and the
\* dispatch comes after both; a request that needed a refresh is signed only
\* after its commit; and a dispatched request that refreshed, being the only
\* writer of the bundle, carries the token it negotiated, not the stale one
\* its check saw.
C2_RefreshBeforeSigning ==
    \A r \in Requests :
        /\ Has(trace[r], "sign") =>
              /\ Before(trace[r], "check", "sign")
              /\ observed[r].needs => Before(trace[r], "commit", "sign")
        /\ Has(trace[r], "dispatch") =>
              /\ Before(trace[r], "check", "dispatch")
              /\ Before(trace[r], "sign", "dispatch")
        /\ (Dispatched(r) /\ Has(trace[r], "commit") /\ OnlyWriter(r)) =>
              /\ req[r].authentication = <<newSession[r].token>>
              /\ newSession[r].token # observed[r].token

C2_Witness ==
    \E r \in Requests :
        /\ Dispatched(r)
        /\ Has(trace[r], "commit")
        /\ \A q \in Requests \ {r} : pc[q] = "idle"
        /\ req[r].authentication = <<newSession[r].token>>

C4_SecondWriteWins ==
    /\ commits # << >> => apiContext.session_context = newSession[Last(commits)]
    /\ \A i \in DOMAIN commits : observed[commits[i]].needs
    /\ \A r \in Requests : Has(trace[r], "commit") <=> Has(commits, r)

\* two requests saw the same stale session, both negotiated, both committed,
\* and the bundle holds the second one's session
C4_Witness ==
    /\ Len(commits) = 2
    /\ commits[1] # commits[2]
    /\ observed[commits[1]].needs /\ observed[commits[2]].needs
    /\ observed[commits[1]].token = observed[commits[2]].token
    /\ apiContext.session_context = newSession[commits[2]]
    /\ apiContext.session_context # newSession[commits[1]]

\* C5: the mutex is never held by a request whose network call (the session
\* negotiation or the dispatched request) is in flight; every step that reads
\* the shared bundle (the expiry check, the snapshot, the signing
\* middleware's clone) or replaces it (the commit) is taken by the holder of
\* the mutex and releases it.
C5_LockNotHeldAcrossNetwork ==
    [][/\ \A r \in Requests :
            /\ pc'[r] \in {"negotiating", "in_flight"} => lock' # r
            /\ (\/ observed'[r] # observed[r]
                \/ (local'[r] # local[r] /\ local'[r] # NullContext)
                \/ (signCtx'[r] # signCtx[r] /\ signCtx'[r] # NullContext))
               => (lock = r /\ lock' = Free)
       /\ (apiContext' # apiContext /\ bpc = "returned_ok")
            => (lock \in Requests /\ pc[lock] = "commit" /\ lock' = Free)
      ]_vars

\* one request's negotiation is in flight while another holds the mutex
C5_Witness ==
    \E r, q \in Requests :
        /\ r # q
        /\ pc[r] = "negotiating"
        /\ lock = q

\* C6: once get_api_context has returned the bundle, its api_key, environment
\* and installation_context stay what they were then, through successful and
\* failed refreshes; the session is the original one or one a refresh
\* negotiated, put in whole.
C6_OnlySessionChanges ==
    bpc = "returned_ok" =>
        /\ apiContext.api_key = origin.api_key
        /\ apiContext.environment = origin.environment
        /\ apiContext.installation_context = origin.installation_context
        /\ apiContext.session_context \in SessionsHeld
        /\ commits = << >> => apiContext = origin

C6_Witness ==
    /\ commits # << >>
    /\ \E r \in Requests : pc[r] = "failed"
    /\ apiContext.session_context # origin.session_context
    /\ apiContext.installation_context = origin.installation_context
    /\ origin.installation_context # NullInstallation

\* the request has left the signing middleware and is not back yet
LeftSigning(r) == Has(trace[r], "sign") /\ pc[r] # "done"

\* C7: a request that has left the signing middleware carries exactly one
\* Authentication header, with or without a body; its value is the token of
\* the bundle the middleware cloned, which is a session the shared bundle
\* held.
C7_AuthenticationAlways ==
    \A r \in Requests :
        /\ Has(trace[r], "sign") => Len(req[r].authentication) = 1
        /\ LeftSigning(r) =>
              /\ req[r].authentication = <<signCtx[r].session_context.token>>
              /\ signCtx[r].session_context \in SessionsHeld

C7_Witness ==
    \E r \in Requests :
        /\ pc[r] = "in_flight"
        /\ req[r].body = None
        /\ req[r].authentication = <<apiContext.session_context.token>>

\* C8: a request that has left the signing middleware carries a Signature
\* header exactly when it has a body, and then the header is the signature of
\* the body's bytes under the client private key of the bundle.
C8_SignatureIffBody ==
    \A r \in Requests :
        Has(trace[r], "sign") =>
            /\ req[r].signature # << >> <=> IsSome(req[r].body)
            /\ IsSome(req[r].body) =>
                  req[r].signature =
                      <<SignBytesDataToString(
                            Unwrap(req[r].body),
                            origin.installation_context.private_key_client)>>

C8_Witness ==
    \E r, q \in Requests :
        /\ Dispatched(r) /\ IsSome(req[r].body) /\ Len(req[r].signature) = 1
        /\ Dispatched(q) /\ req[q].body = None /\ req[q].signature = << >>

EndpointsOf(cs) == [i \in DOMAIN cs |-> cs[i].endpoint]
Handshake == <<"installation", "device-server", "session-server">>
\* how many of the builder's four setters have run
StepsDone ==
    Len(builder.api_key) + Len(builder.installation_context)
    + Len(builder.device_id) + Len(builder.session_context)

\* C9: when the credential file exists, get_api_context makes no handshake
\* call and never writes the file, and what it returns is the bundle that was
\* serialized into the file; when the file does not exist, the file is
\* written exactly when get_api_context returns Ok, after the whole
\* handshake, and holds the serialization of the bundle returned, which is the
\* one the builder built.
C9_LoadOrBootstrap ==
    /\ fileAtStart.exists =>
          /\ calls = << >> /\ fileWrites = 0 /\ file = fileAtStart
          /\ builder = NewForEnvironment("")
          /\ bpc \in {"start", "returned_ok", "panicked"}
          /\ bpc = "returned_ok" =>
                /\ fileAtStart = PersistedFile(origin)
                /\ \E v \in StoredValidUntil : origin = StoredContext(v)
    /\ ~fileAtStart.exists =>
          /\ fileWrites = (IF bpc = "returned_ok" THEN 1 ELSE 0)
          /\ bpc # "returned_ok" => file = fileAtStart
          /\ bpc = "returned_ok" =>
                /\ EndpointsOf(calls) = Handshake
                /\ bootError = NoFailure
                /\ Build(builder).ok
                /\ origin = Build(builder).value
                /\ file = PersistedFile(origin)

\* the file was there: the stored bundle is returned, nothing called or written
C9_Witness ==
    /\ bpc = "returned_ok"
    /\ fileAtStart.exists
    /\ apiContext = StoredContext(10)
    /\ calls = << >>
    /\ fileWrites = 0

\* C10: once a step of the bootstrap has failed, get_api_context has returned
\* the error: the calls made are the handshake up to the failed step and no
\* further, the builder holds what the steps before it set, and
\* persist_config has not run: the file is as it was found and no bundle was
\* returned.
C10_FailedStepStopsBootstrap ==
    ~bootError.ok =>
        /\ bpc = "returned_err"
        /\ fileWrites = 0 /\ file = fileAtStart
        /\ apiContext = NullContext /\ origin = NullContext
        /\ StepsDone <= 3
        /\ Len(calls) = StepsDone
        /\ EndpointsOf(calls) = SubSeq(Handshake, 1, Len(calls))
        /\ \A r \in Requests : pc[r] = "idle"

\* the installation response had no ServerPublicKey entry
C10_Witness ==
    /\ bpc = "returned_err"
    /\ bootError.why = "Token or ServerPublicKey not found in response"
    /\ EndpointsOf(calls) = <<"installation">>
    /\ ~file.exists

\* C11: the bootstrap calls installation, then device-server, then
\* session-server, each once and in that order; device registration starts
\* only with the installation context the first step returned, session
\* creation only with the device id the second returned; and a bundle comes
\* out of the bootstrap only when all three calls were made and every step
\* set its part of the builder.
C11_HandshakeInOrder ==
    /\ \E n \in 0..Len(Handshake) : EndpointsOf(calls) = SubSeq(Handshake, 1, n)
    /\ Len(calls) >= 1 => IsSome(builder.api_key)
    /\ Len(calls) >= 2 =>
          /\ IsSome(builder.installation_context)
          /\ calls[2].authentication = Some(Unwrap(builder.installation_context).token)
    /\ Len(calls) >= 3 =>
          /\ IsSome(builder.device_id)
          /\ calls[3].authentication = Some(Unwrap(builder.installation_context).token)
    /\ (bpc \in {"build", "returned_ok"} /\ ~fileAtStart.exists) =>
          /\ EndpointsOf(calls) = Handshake
          /\ StepsDone = 4
    /\ IsSome(builder.session_context) => IsSome(builder.device_id)
    /\ IsSome(builder.device_id) => IsSome(builder.installation_context)

\* the bootstrap went through: three calls in order, a device id, a bundle
C11_Witness ==
    /\ bpc = "returned_ok"
    /\ EndpointsOf(calls) = Handshake
    /\ IsSome(builder.device_id)
    /\ apiContext.session_context = Unwrap(builder.session_context)

\* the bundle has its four fields, each with all of its own
FullyPopulated(c) ==
    /\ c.api_key # NullContext.api_key
    /\ c.environment \in {"SANDBOX", "PRODUCTION"}
    /\ c.installation_context # NullInstallation
    /\ c.installation_context.token # NoToken
    /\ c.session_context # NullSession
    /\ c.session_context.token # NoToken

\* C12: build returns a bundle exactly when the access token, the
\* installation context and the session context have all been set, made of
\* those three and the builder's environment, and otherwise fails with
\* MissingDataToBuildApiContext, after which get_api_context returns the
\* error and writes nothing; and whenever the program has written the
\* credential file, the file is the serialization of a fully populated
\* bundle.
C12_BuiltWholeOrNotAtAll ==
    /\ applied.fn = "build" =>
          LET b == applied.args
              ret == applied.ret
          IN  /\ ret.ok <=> /\ IsSome(b.api_key)
                            /\ IsSome(b.installation_context)
                            /\ IsSome(b.session_context)
              /\ ret.ok =>
                    /\ ret.value = ApiContext(Unwrap(b.api_key), b.environment,
                                              Unwrap(b.installation_context),
                                              Unwrap(b.session_context))
                    /\ FullyPopulated(ret.value)
              /\ ~ret.ok => ret.why = "MissingDataToBuildApiContext"
              /\ bpc \in {"build", "returned_ok", "returned_err"}
              /\ bpc = "returned_ok" <=> file.exists
              /\ bpc = "returned_ok" => ret.ok /\ apiContext = ret.value
              /\ bpc = "returned_err" => ~ret.ok /\ bootError = ret
    /\ file # fileAtStart =>
          /\ file.exists
          /\ Parses(file.content)
          /\ FullyPopulated(FromJson(file.content))
          /\ file = PersistedFile(FromJson(file.content))

\* build was called with the session context missing and the rest set: it
\* failed and there is no file
C12_Witness ==
    /\ applied.fn = "build"
    /\ IsSome(applied.args.api_key) /\ IsSome(applied.args.installation_context)
    /\ applied.args.session_context = None
    /\ bpc = "returned_err"
    /\ bootError.why = "MissingDataToBuildApiContext"
    /\ ~file.exists

\* C13: a bundle written by persist_config where there was no file is read
\* back by the load branch of get_api_context without failure and equal to
\* the bundle written, field by field; the load makes no call and leaves the
\* file as persist_config wrote it.
C13_PersistThenLoad ==
    applied.fn = "persist_config" =>
        /\ file = applied.ret
        /\ file.content = ToJson(applied.args)
        /\ bpc \in {"start", "returned_ok"}
        /\ calls = << >>
        /\ bpc = "returned_ok" =>
              /\ apiContext.api_key = applied.args.api_key
              /\ apiContext.environment = applied.args.environment
              /\ apiContext.installation_context = applied.args.installation_context
              /\ apiContext.session_context = applied.args.session_context
              /\ apiContext = applied.args

\* a bundle whose two user profiles differ was persisted and loaded
C13_Witness ==
    /\ applied.fn = "persist_config"
    /\ bpc = "returned_ok"
    /\ apiContext = applied.args
    /\ apiContext.environment = "PRODUCTION"
    /\ apiContext.session_context.valid_until = 10
    /\ apiContext.session_context.user_api_key.granted_by_user.id = 8

Count(seq, e) == Cardinality({i \in DOMAIN seq : seq[i] = e})

\* C14: a request goes through each step of the pipeline at most once: one
\* expiry check, at most one snapshot and one negotiation, whose outcome is
\* final: after a failed one nothing follows, after a successful one the
\* commit and then the signing middleware, with no second check of the new
\* session; so the provider issues at most one session per request, beside
\* the one of the bootstrap, and the bootstrap makes each of its calls at
\* most once.
C14_NothingRetried ==
    /\ \A r \in Requests :
          /\ \A e \in {"check", "snapshot", "commit", "sign", "dispatch"} :
                Count(trace[r], e) <= 1
          /\ Count(trace[r], "negotiated") + Count(trace[r], "refresh_failed") <= 1
          /\ Has(trace[r], "refresh_failed") =>
                /\ Last(trace[r]) = "refresh_failed"
                /\ pc[r] = "failed"
          /\ (Has(trace[r], "commit") /\ Last(trace[r]) # "commit") =>
                trace[r][Pos(trace[r], "commit") + 1] = "sign"
    /\ \A i, j \in DOMAIN calls : calls[i].endpoint = calls[j].endpoint => i = j
    /\ issued <= Len(calls) + NumRequests
    /\ issued <= 1 + Cardinality({r \in Requests : Has(trace[r], "negotiated")})

\* a request refreshed once, the session it got is itself due for a refresh,
\* and the request was signed and dispatched all the same
C14_Witness ==
    \E r \in Requests :
        /\ pc[r] = "in_flight"
        /\ Count(trace[r], "negotiated") = 1
        /\ OnlyWriter(r) /\ commits # << >>
        /\ NeedsToBeRefreshed(newSession[r], newSession[r].valid_until
                                               - newSession[r].user_api_key.requested_by_user.session_timeout)
        /\ req[r].authentication = <<newSession[r].token>>

\* C15: process_response_content on a "Response" body whose entries all
\* decode as the expected content returns Success with as many entries as
\* the body has, each the decoding of the entry at its place; and it returns
\* Success for no other body.
C15_SuccessKeepsEveryEntry ==
    applied.fn = "process_response_content" =>
        LET body == applied.args[1]
            content == applied.args[2]
            ret == applied.ret
            matches == /\ body.shape = "Response"
                       /\ \A i \in DOMAIN body.entries :
                             body.entries[i].variant \in content
        IN  /\ matches <=> ret.kind = "Success"
            /\ matches =>
                  /\ Len(ret.response) = Len(body.entries)
                  /\ \A i \in DOMAIN body.entries : ret.response[i] = body.entries[i]
                  /\ ret.error = << >>

\* a body of two different entries decoded to the two, in the body's order
C15_Witness ==
    /\ applied.fn = "process_response_content"
    /\ applied.ret.kind = "Success"
    /\ Len(applied.ret.response) = 2
    /\ applied.ret.response[1].variant = "UserApiKey"
    /\ applied.ret.response[2].variant = "Token"
    /\ applied.ret.response = applied.args[1].entries

\* C16: process_response_content on an "Error" body returns Error, whatever
\* the expected content, holding every error entry of the body, in the
\* body's order, each with its error_description and
\* error_description_translated.
C16_ErrorKeepsEveryError ==
    applied.fn = "process_response_content" =>
        LET body == applied.args[1]
            ret == applied.ret
        IN  /\ body.shape = "Error" <=> ret.kind = "Error"
            /\ body.shape = "Error" =>
                  /\ Len(ret.error) = Len(body.errors)
                  /\ \A i \in DOMAIN body.errors :
                        /\ ret.error[i].error_description
                              = body.errors[i].error_description
                        /\ ret.error[i].error_description_translated
                              = body.errors[i].error_description_translated
                  /\ ret.response = << >>

\* two different errors came back as the two, decoding for a content type
\* that has no such entries
C16_Witness ==
    /\ applied.fn = "process_response_content"
    /\ applied.args[2] = DeviceContent
    /\ applied.ret.kind = "Error"
    /\ Len(applied.ret.error) = 2
    /\ applied.ret.error[1] = BunqError("f", "u")
    /\ applied.ret.error[2] = BunqError("e", "t")

\* C17: with a 2048-bit RSA key the string sign_bytes_data_to_string returns
\* (and so the one a signer of create_signer returns) is 344 characters
\* long for every input, the empty one included.
C17_SignatureLength ==
    (applied.fn = "sign_bytes_data_to_string" /\ applied.args[2] = KeyBits) =>
        applied.ret = 344

\* the empty input was signed with a 2048-bit key
C17_Witness ==
    /\ applied.fn = "sign_bytes_data_to_string"
    /\ applied.args = << << >>, KeyBits >>
    /\ applied.ret = 344

\* C18 as the specification states it: the session create_session builds
\* takes the requesting user's id from the response's requested_by_user
\* profile and the granting user's id from its granted_by_user profile, its
\* user_id from the UserApiKey entry and its token from the Token entry.
C18_ProfilesFromOwnSource ==
    (applied.fn = "create_session" /\ applied.ret.ok) =>
        LET entries == applied.args[1].entries
            k == Unwrap(FindVariant(entries, "UserApiKey"))
            session == applied.ret.value
        IN  /\ session.user_api_key.requested_by_user.id = k.requested_by_user.id
            /\ session.user_api_key.granted_by_user.id = k.granted_by_user.id
            /\ session.user_id = k.id
            /\ session.token = Unwrap(FindVariant(entries, "Token")).token

\* C18, what the program does: the granting user's id is the requesting
\* user's id, the rest of the granting user's profile is its own; the
\* requesting user's profile, user_id and token are as stated.
C18_GrantedIdFromRequested ==
    (applied.fn = "create_session" /\ applied.ret.ok) =>
        LET entries == applied.args[1].entries
            k == Unwrap(FindVariant(entries, "UserApiKey"))
            session == applied.ret.value
        IN  /\ session.user_api_key.requested_by_user = k.requested_by_user
            /\ session.user_api_key.granted_by_user =
                  [k.granted_by_user EXCEPT !.id = k.requested_by_user.id]
            /\ session.user_api_key.id = k.id
            /\ session.user_id = k.id
            /\ session.token = Unwrap(FindVariant(entries, "Token")).token

\* the response's profiles have ids 7 and 8, the session's 7 and 7
C18_Witness ==
    /\ applied.fn = "create_session"
    /\ applied.ret.ok
    /\ Unwrap(FindVariant(applied.args[1].entries, "UserApiKey")).granted_by_user.id = 8
    /\ applied.ret.value.user_api_key.requested_by_user.id = 7
    /\ applied.ret.value.user_api_key.granted_by_user.id = 7

\* the successful envelope has a Token entry and a UserApiKey entry
HasTokenAndUserApiKey(body) ==
    /\ body.shape = "Response"
    /\ IsSome(FindVariant(body.entries, "Token"))
    /\ IsSome(FindVariant(body.entries, "UserApiKey"))

\* C19 as the specification states it: whatever other entries a successful
\* session-server envelope holds beside a Token and a UserApiKey entry, and
\* wherever they are, create_session does not fail and builds the session
\* from the Token and the UserApiKey entry.
C19_UnknownVariantsTolerated ==
    (applied.fn = "create_session" /\ HasTokenAndUserApiKey(applied.args[1])) =>
        /\ applied.ret.ok
        /\ applied.ret.value.token
              = Unwrap(FindVariant(applied.args[1].entries, "Token")).token
        /\ applied.ret.value.user_id
              = Unwrap(FindVariant(applied.args[1].entries, "UserApiKey")).id

\* C19, what the program does: create_session decodes the entries as Token,
\* UserApiKey or Id and as nothing else; an envelope with an entry of any
\* other variant, wherever it is, fails to decode and no session is built,
\* even when a Token and a UserApiKey entry are there; Id entries are passed
\* over.
C19_UnknownVariantFails ==
    (applied.fn = "create_session" /\ applied.args[1].shape = "Response") =>
        LET entries == applied.args[1].entries
            unknown == \E i \in DOMAIN entries : entries[i].variant \notin SessionContent
        IN  /\ unknown => (~applied.ret.ok /\ applied.ret.why = "deserialization")
            /\ (~unknown /\ HasTokenAndUserApiKey(applied.args[1])) => applied.ret.ok

\* a Token, a UserApiKey and an entry of another variant: no session
C19_Witness ==
    /\ applied.fn = "create_session"
    /\ applied.args[1].shape = "Response"
    /\ Len(applied.args[1].entries) = 3
    /\ applied.args[1].entries[1].variant = "Token"
    /\ applied.args[1].entries[2].variant = "UserApiKey"
    /\ applied.args[1].entries[3].variant = "Other"
    /\ ~applied.ret.ok

\* the first entry of the variant, found by position
FirstOf(entries, variant) ==
    entries[Min({i \in DOMAIN entries : entries[i].variant = variant})]
HasVariant(entries, variant) == \E i \in DOMAIN entries : entries[i].variant = variant

\* C20: on a successful envelope create_session fails, with no session,
\* whenever there is no Token entry or no UserApiKey entry; a session it
\* returns has the token of the first Token entry and the id and the
\* session timeout of the first UserApiKey entry, wherever the two are in
\* the list; and it returns one whenever both are there among entries it
\* can decode.
C20_TokenAndUserApiKeyRequired ==
    (applied.fn = "create_session" /\ applied.args[1].shape = "Response") =>
        LET entries == applied.args[1].entries
            t == applied.args[2]
            ret == applied.ret
            both == HasVariant(entries, "Token") /\ HasVariant(entries, "UserApiKey")
            decodable == \A i \in DOMAIN entries : entries[i].variant \in SessionContent
        IN  /\ ~both => ~ret.ok
            /\ (~both /\ decodable) =>
                  ret = Failure("Token or UserApiKey not found in response")
            /\ (both /\ decodable) => ret.ok
            /\ ret.ok =>
                  /\ ret.value.token = FirstOf(entries, "Token").token
                  /\ ret.value.user_id = FirstOf(entries, "UserApiKey").id
                  /\ ret.value.valid_until =
                        t + FirstOf(entries, "UserApiKey").requested_by_user.session_timeout

\* the UserApiKey entry before two Token entries: the first token is taken
C20_Witness ==
    /\ applied.fn = "create_session"
    /\ applied.args[1].shape = "Response"
    /\ Len(applied.args[1].entries) = 3
    /\ applied.args[1].entries[1] = UserApiKeyEntry(11)
    /\ applied.args[1].entries[2] = TokenEntry(SessionTokenOf(2))
    /\ applied.args[1].entries[3] = TokenEntry(SessionTokenOf(1))
    /\ applied.ret.ok
    /\ applied.ret.value.token = SessionTokenOf(2)

\* C21: the valid_until of a session create_session returns is the clock
\* reading at which the response was handled plus the session_timeout of the
\* requested_by_user profile of the UserApiKey entry used; the granting
\* user's session_timeout has no part in it, and is only copied into the
\* granted_by_user profile.
C21_ValidUntilFromRequestingUser ==
    (applied.fn = "create_session" /\ applied.ret.ok) =>
        LET k == FirstOf(applied.args[1].entries, "UserApiKey")
            t == applied.args[2]
            session == applied.ret.value
        IN  /\ session.valid_until = t + k.requested_by_user.session_timeout
            /\ session.valid_until - t
                  = session.user_api_key.requested_by_user.session_timeout
            /\ k.granted_by_user.session_timeout # k.requested_by_user.session_timeout
                  => session.valid_until # t + k.granted_by_user.session_timeout
            /\ session.user_api_key.granted_by_user.session_timeout
                  = k.granted_by_user.session_timeout

\* handled at clock reading 1, requesting user's timeout 9, granting user's
\* 3600: valid until 10
C21_Witness ==
    /\ applied.fn = "create_session"
    /\ applied.ret.ok
    /\ applied.args[2] = 1
    /\ FirstOf(applied.args[1].entries, "UserApiKey").requested_by_user.session_timeout = 9
    /\ FirstOf(applied.args[1].entries, "UserApiKey").granted_by_user.session_timeout = 3600
    /\ applied.ret.value.valid_until = 10

\* C22: on a successful installation envelope get_installation_token returns
\* an installation context exactly when the list holds a Token entry and a
\* ServerPublicKey entry, in whichever order and among whatever other
\* entries; its token and public_key_server are those of the first Token and
\* the first ServerPublicKey entry, its client keys the pair generated for
\* the call; with either entry absent it fails.
C22_InstallationOrderIndependent ==
    (applied.fn = "get_installation_token" /\ applied.args[1].shape = "Response") =>
        LET entries == applied.args[1].entries
            keypair == applied.args[2]
            ret == applied.ret
            both == /\ HasVariant(entries, "Token")
                    /\ HasVariant(entries, "ServerPublicKey")
        IN  /\ both <=> ret.ok
            /\ ~both => ret = Failure("Token or ServerPublicKey not found in response")
            /\ both =>
                  ret.value =
                      InstallationContext(
                          FirstOf(entries, "Token").token,
                          PrivateKeyOf(keypair), PublicKeyOf(keypair),
                          FirstOf(entries, "ServerPublicKey").server_public_key)

\* an unknown entry, then the server key, then the token: a context all the same
C22_Witness ==
    /\ applied.fn = "get_installation_token"
    /\ applied.args[1].shape = "Response"
    /\ Len(applied.args[1].entries) = 3
    /\ applied.args[1].entries[1] = OtherEntry
    /\ applied.args[1].entries[2].variant = "ServerPublicKey"
    /\ applied.args[1].entries[3].variant = "Token"
    /\ applied.ret.ok
    /\ applied.ret.value.token = applied.args[1].entries[3].token
    /\ applied.ret.value.private_key_client = PrivateKeyOf(applied.args[2])

\* C23 as the specification states it: register_device returns the id of the
\* first Id entry whenever the successful envelope holds at least one Id
\* entry, and fails when it holds none.
C23_FirstIdWheneverPresent ==
    (applied.fn = "register_device" /\ applied.args[1].shape = "Response") =>
        LET entries == applied.args[1].entries
        IN  /\ HasVariant(entries, "Id") =>
                  /\ applied.ret.ok
                  /\ applied.ret.value = FirstOf(entries, "Id").id
            /\ ~HasVariant(entries, "Id") => ~applied.ret.ok

\* C23, what the program does: register_device decodes every entry as an
\* object with an "Id" member, so it returns an id, that of the first
\* entry, exactly when the list is not empty and all of its entries are Id
\* entries; an entry of another variant anywhere makes the decoding fail,
\* Id entries or not. The id returned is set in the builder and is no part
\* of the bundle built.
C23_EveryEntryMustBeId ==
    /\ (applied.fn = "register_device" /\ applied.args[1].shape = "Response") =>
          LET entries == applied.args[1].entries
              allId == \A i \in DOMAIN entries : entries[i].variant = "Id"
          IN  /\ applied.ret.ok <=> (entries # << >> /\ allId)
              /\ applied.ret.ok => applied.ret.value = entries[1].id
              /\ ~allId => applied.ret = Failure("deserialization")
              /\ entries = << >> => applied.ret = Failure("Id not found in response")
    /\ (bpc = "returned_ok" /\ IsSome(builder.device_id)) =>
          /\ DOMAIN apiContext
                = {"api_key", "environment", "installation_context", "session_context"}
          /\ apiContext = Build([builder EXCEPT !.device_id = None]).value

\* an entry of another variant before the Id entry: no device id
C23_Witness ==
    /\ applied.fn = "register_device"
    /\ applied.args[1].shape = "Response"
    /\ Len(applied.args[1].entries) = 2
    /\ applied.args[1].entries[1] = OtherEntry
    /\ applied.args[1].entries[2] = IdEntry(1)
    /\ ~applied.ret.ok

\* C24: when the provider answers the installation, the device-server or
\* the session-server call with an Error envelope, the step returns a
\* failure whose message holds every error entry of the envelope, in order,
\* and returns no installation context, device id or session; in the
\* bootstrap that failure is what get_api_context returns.
C24_ErrorEnvelopeFailsTheStep ==
    /\ (/\ applied.fn \in {"get_installation_token", "register_device", "create_session"}
        /\ applied.args[1].shape = "Error") =>
          /\ ~applied.ret.ok
          /\ applied.ret.why = "Error: {:?}"
          /\ applied.ret.errors = applied.args[1].errors
          /\ DOMAIN applied.ret = {"ok", "why", "errors"}
    /\ (~bootError.ok /\ bootError.why = "Error: {:?}") =>
          /\ bpc = "returned_err"
          /\ ErrorBody(bootError.errors) \in ErrorBodies
          /\ StepsDone = Len(calls)

\* two errors from the device-server: both are in the failure
C24_Witness ==
    /\ applied.fn = "register_device"
    /\ applied.args[1] = ErrorBody(<<BunqError("e", "t"), BunqError("f", "u")>>)
    /\ ~applied.ret.ok
    /\ applied.ret.errors = <<BunqError("e", "t"), BunqError("f", "u")>>

\* C25: the one call a refresh makes is to the session-server, with the
\* api_key as secret, the installation token as Authentication and the
\* signature made with the client private key of the bundle it snapshotted,
\* which are those the bundle was created or loaded with; refreshes add no
\* installation or device-server call to those of the bootstrap and leave
\* the client keypair as it was.
C25_RefreshCallsSessionServerOnly ==
    /\ \A r \in Requests :
          /\ negotiation[r] # NoCall =>
                /\ Has(trace[r], "snapshot")
                /\ negotiation[r].endpoint = "session-server"
                /\ negotiation[r] =
                      SessionServerCall(origin.api_key, origin.installation_context.token,
                                        origin.installation_context.private_key_client)
          /\ pc[r] \in {"negotiating", "commit_lock", "commit"} =>
                negotiation[r] =
                    SessionServerCall(local[r].api_key, local[r].installation_context.token,
                                      local[r].installation_context.private_key_client)
    /\ bpc = "returned_ok" =>
          /\ EndpointsOf(calls) = (IF fileAtStart.exists THEN << >> ELSE Handshake)
          /\ apiContext.installation_context.private_key_client
                = origin.installation_context.private_key_client
          /\ apiContext.installation_context.public_key_client
                = origin.installation_context.public_key_client

\* a refresh of a bundle that was loaded from the file: its call to the
\* session-server is the only call the program has made
C25_Witness ==
    \E r \in Requests :
        /\ pc[r] = "negotiating"
        /\ negotiation[r].endpoint = "session-server"
        /\ negotiation[r].authentication = Some(InstallationTokenOf(0))
        /\ fileAtStart.exists
        /\ calls = << >>

\* C26: of the calls of the bootstrap, the installation call has no
\* Authentication and no Signature header and sends the client public key;
\* the device-server and the session-server call each have the installation
\* token as Authentication and, as Signature, the signature of the very
\* bytes of their body under the client private key of the installation
\* context that holds that token, the key whose public half the
\* installation call sent.
C26_HandshakeHeaders ==
    /\ Len(calls) >= 1 =>
          /\ calls[1].endpoint = "installation"
          /\ calls[1].authentication = None
          /\ calls[1].signature = None
    /\ \A i \in DOMAIN calls : i >= 2 =>
          LET installation_context == Unwrap(builder.installation_context)
          IN  /\ calls[i].endpoint \in {"device-server", "session-server"}
              /\ calls[i].authentication = Some(installation_context.token)
              /\ calls[i].signature =
                    Some(SignBytesDataToString(calls[i].body,
                                               installation_context.private_key_client))
              /\ calls[1].body = <<"client_public_key",
                                   installation_context.public_key_client>>
              /\ installation_context.private_key_client[2]
                    = installation_context.public_key_client[2]

\* the three calls were made: none, then twice both headers
C26_Witness ==
    /\ Len(calls) = 3
    /\ calls[1].authentication = None /\ calls[1].signature = None
    /\ calls[2].authentication = Some(InstallationTokenOf(1))
    /\ calls[3].authentication = Some(InstallationTokenOf(1))
    /\ calls[3].signature
          = Some(SignBytesDataToString(<<"secret", "ak1">>, PrivateKeyOf(1)))
    /\ calls[2].signature # calls[3].signature

\* C27 as the specification states it: no step makes the valid_until of the
\* shared bundle's session smaller.
C27_ValidUntilNeverDecreases ==
    [][apiContext'.session_context.valid_until
         >= apiContext.session_context.valid_until]_vars

\* C27, amended: the valid_until of the shared session is that of the
\* session the latest commit wrote, whether that session was negotiated
\* before or after the one it replaces and whether it lasts longer or not.
C27_LastCommitDecides ==
    commits # << >> =>
        /\ apiContext.session_context.valid_until = newSession[Last(commits)].valid_until
        /\ apiContext.session_context.token = newSession[Last(commits)].token
        /\ \A i \in DOMAIN commits :
              newSession[commits[i]].valid_until
                <= now + newSession[commits[i]].user_api_key.requested_by_user.session_timeout

\* the session negotiated first was committed last and replaced a session
\* that was negotiated later and was valid for longer
C27_Witness ==
    /\ Len(commits) = 2
    /\ newSession[commits[2]].token[2] < newSession[commits[1]].token[2]
    /\ newSession[commits[2]].valid_until < newSession[commits[1]].valid_until
    /\ apiContext.session_context = newSession[commits[2]]

Waiting(r) == pc[r] \in {"check_lock", "snapshot_lock", "commit_lock", "sign_lock"}
Finished(r) == pc[r] \in {"in_flight", "done", "failed"}

\* C28: under fair scheduling and a provider that answers, every request
\* that was sent is eventually dispatched or fails with the refresh error;
\* a request waiting for the mutex eventually holds it, a request holding it
\* eventually releases it, and a dispatched request eventually gets its
\* answer.
C28_EveryRequestTerminates ==
    \A r \in Requests :
        /\ (pc[r] # "idle") ~> Finished(r)
        /\ Waiting(r) ~> (lock = r)
        /\ (lock = r) ~> (lock # r)
        /\ (pc[r] = "in_flight") ~> (pc[r] = "done")

\* a request waits for the mutex while the other holds it to commit
C28_Witness ==
    \E r, q \in Requests :
        /\ r # q
        /\ pc[r] = "snapshot_lock"
        /\ pc[q] = "commit" /\ lock = q

\* C29: a refresh, successful or failed, never writes the credential file.
\* Once get_api_context has returned Ok the file holds the serialization of
\* the bundle it returned (the one loaded, or the one the bootstrap built),
\* written once by the bootstrap or never when it was loaded, whatever the
\* refreshes did since; a restart parses the file into that bundle, with the
\* session of the bootstrap and not the one in memory.
C29_RefreshNeverPersists ==
    bpc = "returned_ok" =>
        /\ file = PersistedFile(origin)
        /\ file.content = ToJson(origin)
        /\ fileWrites = (IF fileAtStart.exists THEN 0 ELSE 1)
        /\ Parses(file.content)
        /\ FromJson(file.content) = origin
        /\ FromJson(file.content).session_context = origin.session_context
        /\ ~fileAtStart.exists /\ commits = << >> => FromJson(file.content) = apiContext

\* one refresh failed and another committed: the session in memory is the
\* new one, the file still holds the session of the bootstrap
C29_Witness ==
    /\ bpc = "returned_ok"
    /\ ~fileAtStart.exists
    /\ commits # << >>
    /\ \E r \in Requests : result[r] = "refresh_error"
    /\ apiContext.session_context = newSession[Last(commits)]
    /\ FromJson(file.content).session_context # apiContext.session_context
    /\ FromJson(file.content).session_context = origin.session_context

\* C30: the step in which the refresh middleware finds the session still
\* valid (needs_to_be_refreshed false) hands the request to the signing
\* middleware and leaves the shared bundle, the writers and the file as they
\* were; a request that was found not to need a refresh never snapshots,
\* negotiates or commits afterwards; and the step of the signing middleware
\* leaves the shared bundle as it was, putting only headers on the request.
C30_ValidSessionPassesThrough ==
    [][\A r \in Requests :
          /\ (/\ pc[r] = "check" /\ pc'[r] # "check"
              /\ ~NeedsToBeRefreshed(apiContext.session_context, now))
                => /\ apiContext' = apiContext
                   /\ commits' = commits
                   /\ file' = file
                   /\ ~observed'[r].needs
                   /\ pc'[r] = "sign_lock"
                   /\ negotiation'[r] = NoCall
                   /\ newSession'[r] = NullSession
                   /\ local'[r] = NullContext
          /\ (observed[r].checked /\ ~observed[r].needs)
                => /\ pc'[r] \in {"sign_lock", "sign", "send", "in_flight", "done"}
                   /\ negotiation'[r] = NoCall
                   /\ newSession'[r] = NullSession
                   /\ ~Has(commits', r)
                   /\ ~Has(trace'[r], "snapshot")
          /\ (pc[r] = "sign" /\ pc'[r] # "sign")
                => /\ apiContext' = apiContext
                   /\ commits' = commits
                   /\ file' = file
                   /\ signCtx'[r] = apiContext
                   /\ req'[r].body = req[r].body]_vars

\* a request found the session valid and was signed and dispatched with the
\* session of the bootstrap: nothing was negotiated and the bundle is the
\* one get_api_context returned
C30_Witness ==
    \E r \in Requests :
        /\ observed[r].checked /\ ~observed[r].needs
        /\ pc[r] = "in_flight"
        /\ trace[r] = <<"check", "sign", "dispatch">>
        /\ negotiation[r] = NoCall
        /\ commits = << >>
        /\ apiContext = origin
        /\ signCtx[r] = origin
        /\ req[r].authentication = <<origin.session_context.token>>
====
